---- MODULE Spec2Model ----
(***************************************************************************)
(* Cybertronian calendar conversion engine.                                *)
(*                                                                         *)
(* The engine computes with JavaScript Numbers (IEEE-754 binary64).  The   *)
(* unit ratios (3.6525, 0.36525, 0.0036525 days) are not dyadic, so every  *)
(* product, quotient and sum of the conversion is rounded; the rounding    *)
(* decides the result of Math.floor at unit boundaries.  The model         *)
(* therefore carries binary64 values exactly: a 53-bit significand held as *)
(* a little-endian sequence of 15-bit limbs, an exponent and a sign, with  *)
(* round-to-nearest-even after each operation.                             *)
(***************************************************************************)
EXTENDS Integers, Sequences, FiniteSets

(***************************************************************************)
(* Natural numbers of arbitrary size: little-endian sequences of limbs in  *)
(* 0..Base-1 without leading zero limbs; <<>> is zero.                     *)
(***************************************************************************)
Base == 32768
LimbBits == 15

RECURSIVE Pow2(_)
Pow2(k) == IF k = 0 THEN 1 ELSE 2 * Pow2(k - 1)

RECURSIVE NNorm(_)
NNorm(a) ==
  IF a = <<>> THEN <<>>
  ELSE IF a[Len(a)] = 0 THEN NNorm(SubSeq(a, 1, Len(a) - 1))
  ELSE a

RECURSIVE NFromInt(_)
NFromInt(n) == IF n = 0 THEN <<>> ELSE <<n % Base>> \o NFromInt(n \div Base)

RECURSIVE NToInt(_)
NToInt(a) == IF a = <<>> THEN 0 ELSE Head(a) + Base * NToInt(Tail(a))

RECURSIVE NAddC(_, _, _)
NAddC(a, b, c) ==
  IF a = <<>> /\ b = <<>> THEN (IF c = 0 THEN <<>> ELSE <<c>>)
  ELSE LET x == IF a = <<>> THEN 0 ELSE Head(a)
           y == IF b = <<>> THEN 0 ELSE Head(b)
           s == x + y + c
       IN  <<s % Base>> \o NAddC(IF a = <<>> THEN <<>> ELSE Tail(a),
                                 IF b = <<>> THEN <<>> ELSE Tail(b),
                                 s \div Base)

NAdd(a, b) == NAddC(a, b, 0)

\* a - b for a >= b
RECURSIVE NSubB(_, _, _)
NSubB(a, b, c) ==
  IF a = <<>> THEN <<>>
  ELSE LET y == IF b = <<>> THEN 0 ELSE Head(b)
           d == Head(a) - y - c
       IN  <<IF d < 0 THEN d + Base ELSE d>>
             \o NSubB(Tail(a), IF b = <<>> THEN <<>> ELSE Tail(b),
                      IF d < 0 THEN 1 ELSE 0)

NSub(a, b) == NNorm(NSubB(a, b, 0))

\* -1, 0 or 1 as a < b, a = b, a > b
RECURSIVE NCmpTop(_, _, _)
NCmpTop(a, b, i) ==
  IF i = 0 THEN 0
  ELSE IF a[i] < b[i] THEN -1
  ELSE IF a[i] > b[i] THEN 1
  ELSE NCmpTop(a, b, i - 1)

NCmp(a, b) ==
  IF Len(a) < Len(b) THEN -1
  ELSE IF Len(a) > Len(b) THEN 1
  ELSE NCmpTop(a, b, Len(a))

\* a * n + c for a limb-sized n
RECURSIVE NMulSmallC(_, _, _)
NMulSmallC(a, n, c) ==
  IF a = <<>> THEN (IF c = 0 THEN <<>> ELSE <<c>>)
  ELSE LET p == Head(a) * n + c
       IN  <<p % Base>> \o NMulSmallC(Tail(a), n, p \div Base)

NMulSmall(a, n) == IF n = 0 THEN <<>> ELSE NMulSmallC(a, n, 0)

\* a declaration `let x = v': v is evaluated once and Body reads the value
Let(v, Body(_)) == Body(v)

RECURSIVE NMul(_, _)
NMul(a, b) ==
  IF a = <<>> \/ b = <<>> THEN <<>>
  ELSE Let(NMul(a, Tail(b)), LAMBDA rest :
         NAdd(NMulSmall(a, Head(b)),
              IF rest = <<>> THEN <<>> ELSE <<0>> \o rest))

RECURSIVE Zeros(_)
Zeros(k) == IF k = 0 THEN <<>> ELSE <<0>> \o Zeros(k - 1)

\* a * 2^k
NShl(a, k) ==
  IF a = <<>> THEN <<>>
  ELSE Zeros(k \div LimbBits) \o NMulSmall(a, Pow2(k % LimbBits))

\* floor(a / n) for a limb-sized n > 0, most significant limb first
RECURSIVE NDivSmallR(_, _, _)
NDivSmallR(a, n, r) ==
  IF a = <<>> THEN <<>>
  ELSE LET i == Len(a)
           x == r * Base + a[i]
       IN  NDivSmallR(SubSeq(a, 1, i - 1), n, x % n) \o <<x \div n>>

NDivSmall(a, n) == NNorm(NDivSmallR(a, n, 0))

\* floor(a / 2^k)
NShr(a, k) ==
  IF k \div LimbBits >= Len(a) THEN <<>>
  ELSE NDivSmall(SubSeq(a, (k \div LimbBits) + 1, Len(a)), Pow2(k % LimbBits))

\* a mod 2^k
NLow(a, k) == NSub(a, NShl(NShr(a, k), k))

RECURSIVE BitLenInt(_)
BitLenInt(n) == IF n = 0 THEN 0 ELSE 1 + BitLenInt(n \div 2)

NBitLen(a) ==
  IF a = <<>> THEN 0 ELSE LimbBits * (Len(a) - 1) + BitLenInt(a[Len(a)])

NIsOdd(a) == a # <<>> /\ Head(a) % 2 = 1

\* Binary long division, one quotient bit per step: the remainder r and
\* the quotient q after n further steps, from a state with r < 2 * b.
RECURSIVE NDivBits(_, _, _)
NDivBits(s, b, n) ==
  IF n = 0 THEN s
  ELSE IF NCmp(s.r, b) >= 0
    THEN NDivBits([r |-> NMulSmall(NSub(s.r, b), 2),
                   q |-> NAddC(NMulSmall(s.q, 2), <<>>, 1)], b, n - 1)
    ELSE NDivBits([r |-> NMulSmall(s.r, 2), q |-> NMulSmall(s.q, 2)], b, n - 1)

\* the same in runs of at most 7 steps
RECURSIVE NDivRuns(_, _, _)
NDivRuns(s, b, n) ==
  IF n <= 7 THEN NDivBits(s, b, n) ELSE NDivRuns(NDivBits(s, b, 7), b, n - 7)

\* floor(a * 2^k / b) and whether the division is inexact, for a < 2 * b
NDivFrac(a, b, k) ==
  Let(NDivRuns([r |-> a, q |-> <<>>], b, k + 1), LAMBDA s :
    [q |-> s.q, inexact |-> s.r # <<>>])

(***************************************************************************)
(* JavaScript Numbers.  A finite binary64 value is (-1)^neg * m * 2^e with *)
(* m = <<>> (zero) or 2^52 <= m < 2^53.  Values stay far from the overflow *)
(* and subnormal ranges for every input the model draws; -0 is identified  *)
(* with 0, which no operation of the engine distinguishes.                 *)
(***************************************************************************)
MantBits == 53

DZero == [neg |-> FALSE, m |-> <<>>, e |-> 0]

\* the binary64 nearest to (-1)^neg * n * 2^e, ties to even
DRound(neg, n, e) ==
  IF n = <<>> THEN DZero
  ELSE Let(NBitLen(n), LAMBDA l :
    IF l <= MantBits
      THEN [neg |-> neg, m |-> NShl(n, MantBits - l), e |-> e - (MantBits - l)]
    ELSE Let(l - MantBits, LAMBDA sh :
         Let(NShr(n, sh), LAMBDA q :
         Let(NCmp(NLow(n, sh), NShl(<<1>>, sh - 1)), LAMBDA c :
         Let(IF c > 0 \/ (c = 0 /\ NIsOdd(q)) THEN NAdd(q, <<1>>) ELSE q, LAMBDA q1 :
           IF NBitLen(q1) > MantBits
             THEN [neg |-> neg, m |-> NShr(q1, 1), e |-> e + sh + 1]
             ELSE [neg |-> neg, m |-> q1, e |-> e + sh])))))

DFromInt(n) == DRound(n < 0, NFromInt(IF n < 0 THEN -n ELSE n), 0)

DIsZero(a) == a.m = <<>>

DNeg(a) == IF DIsZero(a) THEN a ELSE [a EXCEPT !.neg = ~a.neg]

DAbs(a) == [a EXCEPT !.neg = FALSE]

DMul(a, b) ==
  IF DIsZero(a) \/ DIsZero(b) THEN DZero
  ELSE DRound(a.neg # b.neg, NMul(a.m, b.m), a.e + b.e)

DDiv(a, b) ==
  IF DIsZero(a) THEN DZero
  ELSE Let(NDivFrac(a.m, b.m, 55), LAMBDA d :
         DRound(a.neg # b.neg,
                NAddC(NMulSmall(d.q, 2), <<>>, IF d.inexact THEN 1 ELSE 0),
                a.e - b.e - 56))

DAdd(a, b) ==
  IF DIsZero(a) THEN b
  ELSE IF DIsZero(b) THEN a
  ELSE Let(IF a.e < b.e THEN a.e ELSE b.e, LAMBDA lo :
       Let(NShl(a.m, a.e - lo), LAMBDA x :
       Let(NShl(b.m, b.e - lo), LAMBDA y :
       Let(NCmp(x, y), LAMBDA c :
         IF a.neg = b.neg THEN DRound(a.neg, NAdd(x, y), lo)
         ELSE IF c = 0 THEN DZero
         ELSE IF c > 0 THEN DRound(a.neg, NSub(x, y), lo)
         ELSE DRound(b.neg, NSub(y, x), lo)))))

DSub(a, b) == DAdd(a, DNeg(b))

\* a < 0
DIsNegative(a) == ~DIsZero(a) /\ a.neg

\* Math.floor, as an integer
DFloor(a) ==
  IF DIsZero(a) THEN 0
  ELSE IF a.e >= 0 THEN
    (IF a.neg THEN -1 ELSE 1) * NToInt(NShl(a.m, a.e))
  ELSE LET q == NToInt(NShr(a.m, -a.e))
           exact == NLow(a.m, -a.e) = <<>>
       IN  IF a.neg THEN -(q + (IF exact THEN 0 ELSE 1)) ELSE q

(***************************************************************************)
(* State.  The unit constants are computed once when the script loads and  *)
(* are read by every conversion afterwards.  `pc' is the position of the   *)
(* caller: for a call of an engine function, `arg' is its argument, `ret'  *)
(* what it returned and `back' what the inverse conversion returned for    *)
(* `ret'; for the page, `pc' is the visible tab, `field' the values of the *)
(* input elements and `result' the textContent of the result elements.     *)
(***************************************************************************)
VARIABLES units, pc, arg, ret, back, field, result

vars == <<units, pc, arg, ret, back, field, result>>

\* Cybertronian time constants, as evaluated at load
UnitsAtLoad ==
  Let(DRound(FALSE, NFromInt(1461), -2), LAMBDA earthYearInDays :       \* 365.25
  Let(DFromInt(10), LAMBDA solarCycleYears :
  Let(DMul(solarCycleYears, earthYearInDays), LAMBDA solarCycleDays :
  Let(DDiv(solarCycleDays, DFromInt(1000)), LAMBDA cycle :
    [EARTH_YEAR_IN_DAYS |-> earthYearInDays,
     SOLAR_CYCLE_YEARS |-> solarCycleYears,
     SOLAR_CYCLE_DAYS |-> solarCycleDays,
     CYCLE |-> cycle,
     CHORD |-> DMul(DDiv(cycle, DFromInt(10)), DFromInt(100)),
     KLIK |-> DDiv(cycle, DFromInt(1000)),
     \* the values of the expressions CYCLE / 10 and CYCLE / 1000 that the
     \* conversions evaluate on every call
     CYCLE_10 |-> DDiv(cycle, DFromInt(10)),
     CYCLE_1000 |-> DDiv(cycle, DFromInt(1000))]))))

SOLAR_CYCLE_DAYS == units.SOLAR_CYCLE_DAYS
CYCLE == units.CYCLE
CYCLE_10 == units.CYCLE_10
CYCLE_1000 == units.CYCLE_1000
SECONDS_IN_DAY == DRound(FALSE, <<20864, 2>>, 0)                \* 86400

(***************************************************************************)
(* Texts are sequences of lexemes.  Digits, the minus sign, the blank, the *)
(* comma and the letters "x" and "s" are single characters; the keyword    *)
(* "arc" and the unit words are single lexemes, each also available in an  *)
(* upper-case spelling.                                                    *)
(***************************************************************************)
Digits == <<"0", "1", "2", "3", "4", "5", "6", "7", "8", "9">>

IsDigit(c) == \E i \in 1..10 : Digits[i] = c

DigitVal(c) == (CHOOSE i \in 1..10 : Digits[i] = c) - 1

IsSpace(c) == c = " "

UpperCase == [x \in {"ARC", "YEAR", "WEEK", "DAY", "HOUR", "MINUTE", "SECOND", "S", "X"} |->
               CASE x = "ARC" -> "arc" [] x = "YEAR" -> "year" [] x = "WEEK" -> "week"
                 [] x = "DAY" -> "day" [] x = "HOUR" -> "hour" [] x = "MINUTE" -> "minute"
                 [] x = "SECOND" -> "second" [] x = "S" -> "s" [] x = "X" -> "x"]

\* String.prototype.toLowerCase
toLowerCase(t) ==
  [i \in 1..Len(t) |-> IF t[i] \in DOMAIN UpperCase THEN UpperCase[t[i]] ELSE t[i]]

RECURSIVE trimStart(_)
trimStart(t) ==
  IF t # <<>> /\ IsSpace(Head(t)) THEN trimStart(Tail(t)) ELSE t

RECURSIVE trimEnd(_)
trimEnd(t) ==
  IF t # <<>> /\ IsSpace(t[Len(t)]) THEN trimEnd(SubSeq(t, 1, Len(t) - 1)) ELSE t

\* String.prototype.trim
trim(t) == trimEnd(trimStart(t))

\* t.split(sep) for a separator that is one lexeme: the pieces between the
\* occurrences of sep, empty pieces included
RECURSIVE splitAt(_, _, _)
splitAt(t, sep, piece) ==
  IF t = <<>> THEN <<piece>>
  ELSE IF Head(t) = sep THEN <<piece>> \o splitAt(Tail(t), sep, <<>>)
  ELSE splitAt(Tail(t), sep, Append(piece, Head(t)))

\* input.split(/\s*arc\s*/): the separator takes the blanks on both sides of
\* the keyword with it
splitArc(t) ==
  LET pieces == splitAt(t, "arc", <<>>)
      n == Len(pieces)
  IN  [i \in 1..n |->
        LET p1 == IF i > 1 THEN trimStart(pieces[i]) ELSE pieces[i]
        IN  IF i < n THEN trimEnd(p1) ELSE p1]

\* part.split(/\s+/): the runs between runs of blanks; a text without a
\* blank, the empty text included, is one token
RECURSIVE splitBlanks(_, _)
splitBlanks(t, tok) ==
  IF t = <<>> THEN <<tok>>
  ELSE IF IsSpace(Head(t))
    THEN <<tok>> \o splitBlanks(trimStart(t), <<>>)
  ELSE splitBlanks(Tail(t), Append(tok, Head(t)))

RECURSIVE DecimalValue(_, _)
DecimalValue(t, acc) ==
  IF t = <<>> THEN acc ELSE DecimalValue(Tail(t), 10 * acc + DigitVal(Head(t)))

AllDigits(t) == t # <<>> /\ \A i \in 1..Len(t) : IsDigit(t[i])

\* Number(token) for tokens over the alphabet of the model: the empty
\* string converts to 0, a decimal literal to its value, all else to NaN
Number(tok) ==
  IF tok = <<>> THEN [nan |-> FALSE, v |-> 0]
  ELSE IF AllDigits(tok) THEN [nan |-> FALSE, v |-> DecimalValue(tok, 0)]
  ELSE IF Head(tok) = "-" /\ AllDigits(Tail(tok))
    THEN [nan |-> FALSE, v |-> -DecimalValue(Tail(tok), 0)]
  ELSE [nan |-> TRUE, v |-> 0]

RECURSIVE DigitsOf(_)
DigitsOf(n) ==
  IF n < 10 THEN <<Digits[n + 1]>> ELSE Append(DigitsOf(n \div 10), Digits[(n % 10) + 1])

\* String(n) for an integer n, as in a template literal
NumberToString(n) == IF n < 0 THEN <<"-">> \o DigitsOf(-n) ELSE DigitsOf(n)

(***************************************************************************)
(* A CyberDate has four fields, each Null or Some(n).                      *)
(***************************************************************************)
Null == <<>>
Some(n) == <<n>>
Val(f) == f[1]

MkDate(k, ch, c, sc) == [klik |-> k, chord |-> ch, cycle |-> c, solarCycle |-> sc]

RECURSIVE Flatten(_)
Flatten(ss) == IF ss = <<>> THEN <<>> ELSE Head(ss) \o Flatten(Tail(ss))

Thrown(msg) == [kind |-> "throw", msg |-> msg, date |-> Null]
Returned(d) == [kind |-> "date", msg |-> "", date |-> d]
ReturnedNull == [kind |-> "null", msg |-> "", date |-> Null]

\* the count switch with the three-number case filled from klik upwards
fieldsFromKlik(numbers) ==
  LET n == Len(numbers)
      v(i) == Some(numbers[i].v)
  IN  IF n = 4 THEN Returned(MkDate(v(1), v(2), v(3), v(4)))
      ELSE IF n = 3 THEN Returned(MkDate(v(1), v(2), v(3), Null))
      ELSE IF n = 2 THEN Returned(MkDate(v(1), v(2), Null, Null))
      ELSE IF n = 1 THEN Returned(MkDate(Null, Null, v(1), Null))
      ELSE ReturnedNull

\* the switch on numbers.length
fieldsByCount(numbers) ==
  LET n == Len(numbers)
      v(i) == Some(numbers[i].v)
  IN  IF n = 4 THEN Returned(MkDate(v(1), v(2), v(3), v(4)))
      ELSE IF n = 3 THEN Returned(MkDate(Null, v(1), v(2), v(3)))
      ELSE IF n = 2 THEN Returned(MkDate(v(1), v(2), Null, Null))
      ELSE IF n = 1 THEN Returned(MkDate(Null, Null, v(1), Null))
      ELSE ReturnedNull

parseCybertronianDate(raw) ==
  LET input == toLowerCase(trim(raw))
      arcParts == splitArc(input)
      parsedParts == [i \in 1..Len(arcParts) |->
                        LET toks == splitBlanks(trim(arcParts[i]), <<>>)
                        IN  [j \in 1..Len(toks) |-> Number(toks[j])]]
      numbers == Flatten(parsedParts)
  IN  IF Len(arcParts) < 1 THEN ReturnedNull
      ELSE IF \E i \in 1..Len(numbers) : numbers[i].nan
        THEN Thrown("Invalid number in date")
      ELSE fieldsByCount(numbers)

formatCyberDate(date) ==
  IF date.solarCycle # Null /\ date.cycle # Null /\ date.chord # Null /\ date.klik # Null
    THEN NumberToString(Val(date.klik)) \o <<" ", "arc", " ">> \o NumberToString(Val(date.chord))
         \o <<" ">> \o NumberToString(Val(date.cycle)) \o <<" ", "arc", " ">>
         \o NumberToString(Val(date.solarCycle))
  ELSE IF date.solarCycle # Null /\ date.cycle # Null /\ date.chord # Null /\ date.klik = Null
    THEN NumberToString(Val(date.chord)) \o <<" ">> \o NumberToString(Val(date.cycle))
         \o <<" ", "arc", " ">> \o NumberToString(Val(date.solarCycle))
  ELSE IF date.klik # Null /\ date.chord # Null
    THEN NumberToString(Val(date.klik)) \o <<" ", "arc", " ">> \o NumberToString(Val(date.chord))
  ELSE IF date.cycle # Null THEN NumberToString(Val(date.cycle))
  ELSE <<"Invalid date">>

cyberDateToEarthSeconds(date) ==
  LET d1 == IF date.solarCycle # Null
              THEN DAdd(DZero, DMul(DFromInt(Val(date.solarCycle)), SOLAR_CYCLE_DAYS))
              ELSE DZero
      d2 == IF date.cycle # Null
              THEN DAdd(d1, DMul(DFromInt(Val(date.cycle)), CYCLE))
              ELSE d1
      d3 == IF date.chord # Null
              THEN DAdd(d2, DMul(DFromInt(Val(date.chord)), CYCLE_10))
              ELSE d2
      totalDays == IF date.klik # Null
              THEN DAdd(d3, DMul(DFromInt(Val(date.klik)), CYCLE_1000))
              ELSE d3
  IN  DMul(totalDays, SECONDS_IN_DAY)

earthSecondsToCyberDate(seconds) ==
  Let(DDiv(seconds, SECONDS_IN_DAY), LAMBDA d0 :
  Let(DFloor(DDiv(d0, SOLAR_CYCLE_DAYS)), LAMBDA solarCycle :
  Let(DSub(d0, DMul(DFromInt(solarCycle), SOLAR_CYCLE_DAYS)), LAMBDA d1 :
  Let(DFloor(DDiv(d1, CYCLE)), LAMBDA cycle :
  Let(DSub(d1, DMul(DFromInt(cycle), CYCLE)), LAMBDA d2 :
  Let(DFloor(DDiv(d2, CYCLE_10)), LAMBDA chord :
  Let(DSub(d2, DMul(DFromInt(chord), CYCLE_10)), LAMBDA d3 :
  Let(DFloor(DDiv(d3, CYCLE_1000)), LAMBDA klik :
    MkDate(Some(klik), Some(chord), Some(cycle), Some(solarCycle))))))))))

\* the difference without Math.abs
differenceSigned(date1, date2) ==
  Let(cyberDateToEarthSeconds(date1), LAMBDA seconds1 :
  Let(cyberDateToEarthSeconds(date2), LAMBDA seconds2 :
  Let(DSub(seconds2, seconds1), LAMBDA diffSeconds :
    [diffSeconds |-> diffSeconds,
     diffCyber |-> earthSecondsToCyberDate(diffSeconds)])))

differenceBetweenDates(date1, date2) ==
  Let(cyberDateToEarthSeconds(date1), LAMBDA seconds1 :
  Let(cyberDateToEarthSeconds(date2), LAMBDA seconds2 :
  Let(DAbs(DSub(seconds2, seconds1)), LAMBDA diffSeconds :
    [diffSeconds |-> diffSeconds,
     diffCyber |-> earthSecondsToCyberDate(diffSeconds)])))

(***************************************************************************)
(* parseHumanTime                                                          *)
(***************************************************************************)
UnitWords == {"year", "week", "day", "hour", "minute", "second"}

\* the table with a year of 365 days
unitSecondsCommonYear(word, plural) ==
  CASE word = "year" -> DMul(DFromInt(365), SECONDS_IN_DAY)
    [] word = "week" -> DMul(DFromInt(7), SECONDS_IN_DAY)
    [] word = "day" -> SECONDS_IN_DAY
    [] word = "hour" -> DFromInt(3600)
    [] word = "minute" -> DFromInt(60)
    [] word = "second" -> DFromInt(1)

\* the table `units' of parseHumanTime; the key of a plural is word + "s"
unitSeconds(word, plural) ==
  CASE word = "year" -> DMul(DRound(FALSE, NFromInt(1461), -2), SECONDS_IN_DAY)
    [] word = "week" -> DMul(DFromInt(7), SECONDS_IN_DAY)
    [] word = "day" -> SECONDS_IN_DAY
    [] word = "hour" -> DFromInt(3600)
    [] word = "minute" -> DFromInt(60)
    [] word = "second" -> DFromInt(1)

Lower(c) == IF c \in DOMAIN UpperCase THEN UpperCase[c] ELSE c

RECURSIVE DigitRunEnd(_, _)
DigitRunEnd(t, i) ==
  IF i + 1 <= Len(t) /\ IsDigit(t[i + 1]) THEN DigitRunEnd(t, i + 1) ELSE i

RECURSIVE SkipBlanks(_, _)
SkipBlanks(t, i) ==
  IF i <= Len(t) /\ IsSpace(t[i]) THEN SkipBlanks(t, i + 1) ELSE i

\* One attempt of /(\d+)\s*(years?|weeks?|days?|hours?|minutes?|seconds?)/i
\* at position p: all the digits from p, any blanks, a unit word and the
\* "s" after it when there is one.  A shorter run of digits is followed by
\* a digit and cannot match.
MatchAt(t, p) ==
  IF p > Len(t) \/ ~IsDigit(t[p]) THEN [ok |-> FALSE]
  ELSE LET q == DigitRunEnd(t, p)
           r == SkipBlanks(t, q + 1)
       IN  IF r > Len(t) \/ Lower(t[r]) \notin UnitWords THEN [ok |-> FALSE]
           ELSE LET plural == r + 1 <= Len(t) /\ Lower(t[r + 1]) = "s"
                IN  [ok |-> TRUE,
                     digits |-> SubSeq(t, p, q),
                     word |-> Lower(t[r]),
                     plural |-> plural,
                     lastIndex |-> IF plural THEN r + 2 ELSE r + 1]

\* the loop over regex.exec(text): the leftmost match at or after
\* lastIndex, then on from its end
RECURSIVE execLoop(_, _, _)
execLoop(t, lastIndex, totalSeconds) ==
  IF lastIndex > Len(t) THEN totalSeconds
  ELSE LET match == MatchAt(t, lastIndex)
       IN  IF match.ok
             THEN LET val == DecimalValue(match.digits, 0)      \* parseInt
                  IN  execLoop(t, match.lastIndex,
                               DAdd(totalSeconds,
                                    DMul(DFromInt(val), unitSeconds(match.word, match.plural))))
             ELSE execLoop(t, lastIndex + 1, totalSeconds)

parseHumanTime(t) == execLoop(t, 1, DZero)

(***************************************************************************)
(* Form submit handlers: the textContent each one leaves in its result     *)
(* element.                                                                *)
(***************************************************************************)
ErrorText(msg) == <<"Error: ", msg>>

\* a <= 0
DIsNotPositive(a) == DIsZero(a) \/ DIsNegative(a)

\* the add handler without the check of the Earth time
addSubmitUnchecked(cyberInput, earthInput) ==
  LET parsed == parseCybertronianDate(cyberInput)
      earthSecondsToAdd == parseHumanTime(earthInput)
      startSeconds == cyberDateToEarthSeconds(parsed.date)
      newSeconds == DAdd(startSeconds, earthSecondsToAdd)
      newDate == earthSecondsToCyberDate(newSeconds)
  IN  IF parsed.kind = "throw" THEN ErrorText(parsed.msg)
      ELSE IF parsed.kind = "null" THEN ErrorText("Invalid cybertronian date format.")
      ELSE <<"New Cybertronian Date:\n">> \o formatCyberDate(newDate)

addSubmit(cyberInput, earthInput) ==
  LET parsed == parseCybertronianDate(cyberInput)
      earthSecondsToAdd == parseHumanTime(earthInput)
      startSeconds == cyberDateToEarthSeconds(parsed.date)
      newSeconds == DAdd(startSeconds, earthSecondsToAdd)
      newDate == earthSecondsToCyberDate(newSeconds)
  IN  IF parsed.kind = "throw" THEN ErrorText(parsed.msg)
      ELSE IF parsed.kind = "null" THEN ErrorText("Invalid cybertronian date format.")
      ELSE IF DIsNotPositive(earthSecondsToAdd)
        THEN ErrorText("Invalid or zero Earth time to add.")
      ELSE <<"New Cybertronian Date:\n">> \o formatCyberDate(newDate)

\* the subtract handler without the check of the new seconds
subtractSubmitUnchecked(cyberInput, earthInput) ==
  LET parsed == parseCybertronianDate(cyberInput)
      earthSecondsToSubtract == parseHumanTime(earthInput)
      startSeconds == cyberDateToEarthSeconds(parsed.date)
      newSeconds == DSub(startSeconds, earthSecondsToSubtract)
      newDate == earthSecondsToCyberDate(newSeconds)
  IN  IF parsed.kind = "throw" THEN ErrorText(parsed.msg)
      ELSE IF parsed.kind = "null" THEN ErrorText("Invalid cybertronian date format.")
      ELSE IF DIsNotPositive(earthSecondsToSubtract)
        THEN ErrorText("Invalid or zero Earth time to subtract.")
      ELSE <<"Cybertronian Date after subtracting time:\n">> \o formatCyberDate(newDate)

subtractSubmit(cyberInput, earthInput) ==
  LET parsed == parseCybertronianDate(cyberInput)
      earthSecondsToSubtract == parseHumanTime(earthInput)
      startSeconds == cyberDateToEarthSeconds(parsed.date)
      newSeconds == DSub(startSeconds, earthSecondsToSubtract)
      newDate == earthSecondsToCyberDate(newSeconds)
  IN  IF parsed.kind = "throw" THEN ErrorText(parsed.msg)
      ELSE IF parsed.kind = "null" THEN ErrorText("Invalid cybertronian date format.")
      ELSE IF DIsNotPositive(earthSecondsToSubtract)
        THEN ErrorText("Invalid or zero Earth time to subtract.")
      ELSE IF DIsNegative(newSeconds)
        THEN ErrorText("Resulting date is before the start of Cybertronian time.")
      ELSE <<"Cybertronian Date after subtracting time:\n">> \o formatCyberDate(newDate)

\* the elapsed Earth time of the compare form
humanElapsed(seconds) ==
  Let(DRound(FALSE, NFromInt(1461), -2), LAMBDA yearDays :              \* 365.25
  Let(DFloor(DDiv(seconds, DMul(yearDays, SECONDS_IN_DAY))), LAMBDA years :
  Let(DSub(seconds, DMul(DMul(DFromInt(years), yearDays), SECONDS_IN_DAY)), LAMBDA r1 :
  Let(DFloor(DDiv(r1, DMul(DFromInt(7), SECONDS_IN_DAY))), LAMBDA weeks :
  Let(DSub(r1, DMul(DMul(DFromInt(weeks), DFromInt(7)), SECONDS_IN_DAY)), LAMBDA r2 :
  Let(DFloor(DDiv(r2, SECONDS_IN_DAY)), LAMBDA days :
  Let(DSub(r2, DMul(DFromInt(days), SECONDS_IN_DAY)), LAMBDA r3 :
  Let(DFloor(DDiv(r3, DFromInt(3600))), LAMBDA hours :
  Let(DSub(r3, DMul(DFromInt(hours), DFromInt(3600))), LAMBDA r4 :
  Let(DFloor(DDiv(r4, DFromInt(60))), LAMBDA minutes :
  Let(DSub(r4, DMul(DFromInt(minutes), DFromInt(60))), LAMBDA r5 :
  Let(DFloor(r5), LAMBDA secs :
    NumberToString(years) \o <<" years, ">> \o NumberToString(weeks) \o <<" weeks, ">>
    \o NumberToString(days) \o <<" days, ">> \o NumberToString(hours) \o <<" hours, ">>
    \o NumberToString(minutes) \o <<" minutes, ">> \o NumberToString(secs)
    \o <<" seconds">>))))))))))))

\* the lines of the elapsed Cybertronian time
cyberElapsed(diffCyber) ==
  <<"Klik: ">> \o NumberToString(Val(diffCyber.klik))
  \o <<", Chord: ">> \o NumberToString(Val(diffCyber.chord))
  \o <<", Cycle: ">> \o NumberToString(Val(diffCyber.cycle))
  \o <<", Solar Cycle: ">> \o NumberToString(Val(diffCyber.solarCycle))

compareSubmit(input1, input2) ==
  Let(parseCybertronianDate(input1), LAMBDA parsed1 :
  Let(parseCybertronianDate(input2), LAMBDA parsed2 :
    IF parsed1.kind = "throw" THEN ErrorText(parsed1.msg)
    ELSE IF parsed2.kind = "throw" THEN ErrorText(parsed2.msg)
    ELSE IF parsed1.kind = "null" \/ parsed2.kind = "null"
      THEN ErrorText("Invalid cybertronian date format.")
    ELSE Let(differenceBetweenDates(parsed1.date, parsed2.date), LAMBDA diff :
           <<"Elapsed Cybertronian Time:\n">> \o cyberElapsed(diff.diffCyber)
           \o <<"\n\nElapsed Earth Time:\n">> \o humanElapsed(diff.diffSeconds))))

(***************************************************************************)
(* Bounds and input sets                                                   *)
(***************************************************************************)
MaxTextLen == 6         \* longest arbitrary date text, in lexemes
MaxNumbers == 4         \* most numbers in a well-formed date text
MaxDurLen == 4          \* longest arbitrary duration text, in lexemes
MaxField == 1           \* largest field value of a date handed to format
MaxBlocks == 45         \* seconds inputs reach MaxBlocks blocks of 125 kliks
MaxSmallSeconds == 60   \* and every second up to this one
MaxKlik == 30           \* largest klik of a date handed to toSeconds
MaxChord == 1
MaxCycle == 1
MaxSolarCycle == 1
MaxPageCycle == 1       \* largest cycle typed into a form

Idle == <<>>
InputIds == {"add-date", "add-earth-time", "subtract-date", "subtract-earth-time",
             "compare-date1", "compare-date2"}
ResultIds == {"add-result", "subtract-result", "compare-result"}
EmptyFields == [id \in InputIds |-> <<>>]
EmptyResults == [id \in ResultIds |-> <<>>]

TextsUpTo(alphabet, n) == UNION {[1..k -> alphabet] : k \in 0..n}

DateAlphabet == {"3", "7", " ", "arc", "ARC", "x"}

NumberInputs == {<<"0">>, <<"5">>, <<"1", "2">>}
Separators == {<<" ">>, <<"arc">>, <<" ", "arc", " ">>, <<" ", "ARC">>}

RECURSIVE Joined(_)
\* the texts of n numbers with a separator between neighbours
Joined(n) ==
  IF n = 1 THEN NumberInputs
  ELSE {t \o sep \o num : t \in Joined(n - 1), sep \in Separators, num \in NumberInputs}

WellFormedTexts == UNION {Joined(n) : n \in 1..MaxNumbers}

DateTexts == TextsUpTo(DateAlphabet, MaxTextLen) \cup WellFormedTexts

DurationAlphabet == {"2", "3", " ", ",", "s", "year", "week", "day", "hour",
                     "minute", "second", "DAY"}

DurationTexts == TextsUpTo(DurationAlphabet, MaxDurLen)

FieldInputs == {Null} \cup {Some(n) : n \in 0..MaxField}

FormatInputs == {MkDate(k, ch, c, sc) : k \in FieldInputs, ch \in FieldInputs,
                                        c \in FieldInputs, sc \in FieldInputs}

\* whole seconds in 125 kliks: 125 * 3.6525 / 1000 * 86400
BlockSeconds == (36525 * 108) \div 100

SecondsInputs ==
  (0..MaxSmallSeconds)
  \cup {BlockSeconds * j + d : j \in 1..MaxBlocks, d \in {-1, 0, 1}}

ConvertDates ==
  {MkDate(Some(k), Some(ch), Some(c), Some(sc)) :
     k \in 0..MaxKlik, ch \in 0..MaxChord, c \in 0..MaxCycle, sc \in 0..MaxSolarCycle}

(***************************************************************************)
(* Calls of the parser                                                     *)
(***************************************************************************)
PageIdle == field = EmptyFields /\ result = EmptyResults

InitParse ==
  /\ units = UnitsAtLoad
  /\ pc = "parse"
  /\ arg \in DateTexts
  /\ ret = Idle /\ back = Idle
  /\ PageIdle

Parse ==
  /\ pc = "parse"
  /\ ret' = parseCybertronianDate(arg)
  /\ pc' = "parsed"
  /\ UNCHANGED <<units, arg, back, field, result>>

NextParse == Parse

SpecParse == InitParse /\ [][NextParse]_vars

(***************************************************************************)
(* Calls of the formatter                                                  *)
(***************************************************************************)
InitFormat ==
  /\ units = UnitsAtLoad
  /\ pc = "format"
  /\ arg \in FormatInputs
  /\ ret = Idle /\ back = Idle
  /\ PageIdle

Format ==
  /\ pc = "format"
  /\ ret' = formatCyberDate(arg)
  /\ pc' = "formatted"
  /\ UNCHANGED <<units, arg, back, field, result>>

NextFormat == Format

SpecFormat == InitFormat /\ [][NextFormat]_vars

(***************************************************************************)
(* Calls of the duration parser                                            *)
(***************************************************************************)
InitDuration ==
  /\ units = UnitsAtLoad
  /\ pc = "duration"
  /\ arg \in DurationTexts
  /\ ret = Idle /\ back = Idle
  /\ PageIdle

ParseHumanTime ==
  /\ pc = "duration"
  /\ ret' = parseHumanTime(arg)
  /\ pc' = "summed"
  /\ UNCHANGED <<units, arg, back, field, result>>

NextDuration == ParseHumanTime

SpecDuration == InitDuration /\ [][NextDuration]_vars

(***************************************************************************)
(* Conversions and their round trips                                       *)
(***************************************************************************)
InitConvert ==
  /\ units = UnitsAtLoad
  /\ \/ pc = "seconds" /\ arg \in SecondsInputs
     \/ pc = "date" /\ arg \in ConvertDates
  /\ ret = Idle /\ back = Idle
  /\ PageIdle

FromSeconds ==
  /\ pc = "seconds"
  /\ ret' = earthSecondsToCyberDate(DFromInt(arg))
  /\ pc' = "seconds-date"
  /\ UNCHANGED <<units, arg, back, field, result>>

ToSecondsBack ==
  /\ pc = "seconds-date"
  /\ back' = cyberDateToEarthSeconds(ret)
  /\ pc' = "seconds-date-seconds"
  /\ UNCHANGED <<units, arg, ret, field, result>>

ToSeconds ==
  /\ pc = "date"
  /\ ret' = cyberDateToEarthSeconds(arg)
  /\ pc' = "date-seconds"
  /\ UNCHANGED <<units, arg, back, field, result>>

FromSecondsBack ==
  /\ pc = "date-seconds"
  /\ back' = earthSecondsToCyberDate(ret)
  /\ pc' = "date-seconds-date"
  /\ UNCHANGED <<units, arg, ret, field, result>>

NextConvert == FromSeconds \/ ToSecondsBack \/ ToSeconds \/ FromSecondsBack

SpecConvert == InitConvert /\ [][NextConvert]_vars

(***************************************************************************)
(* The page: one tab is visible, the user has filled its form, and submits *)
(* it.  After an addition the user may carry the new date and the same     *)
(* Earth time over to the subtract tab.                                    *)
(***************************************************************************)
PageKliks == {0, 1, 2, 25, 75}
PageChords == {0, 1, 3}

PageDates ==
  LET ks == {Some(k) : k \in PageKliks}
      chs == {Some(ch) : ch \in PageChords}
      cs == {Some(c) : c \in 0..MaxPageCycle}
  IN  {MkDate(k, ch, c, Some(0)) : k \in ks, ch \in chs, c \in cs}
      \cup {MkDate(Null, ch, c, Some(0)) : ch \in chs, c \in cs}
      \cup {MkDate(k, ch, Null, Null) : k \in ks, ch \in chs}
      \cup {MkDate(Null, Null, c, Null) : c \in cs}

\* what the user types for a date: the notation of the formatter, and three
\* texts that are not dates
PageDateTexts ==
  {formatCyberDate(d) : d \in PageDates}
  \cup {<<>>, <<"x">>, <<"1", " ", "2", " ", "3", " ", "4", " ", "5">>}

PageEarthTimes ==
  {<<"1", " ", "second">>,
   <<"3", "9", "4", "4", "7", " ", "second", "s">>,
   <<"3", "5", "5", "0", "2", "3", " ", "second", "s">>,
   <<"1", " ", "year">>,
   <<"0", " ", "day", "s">>,
   <<>>}

PageOtherDates ==
  {<<"0", " ", "arc", " ", "0", " ", "0", " ", "arc", " ", "0">>,
   <<"1", " ", "arc", " ", "0">>,
   <<"2", "5", " ", "arc", " ", "1", " ", "1", " ", "arc", " ", "0">>}

Init ==
  /\ units = UnitsAtLoad
  /\ arg = Idle /\ ret = Idle /\ back = Idle
  /\ result = EmptyResults
  /\ \/ /\ pc = "add"
        /\ \E d \in PageDateTexts, e \in PageEarthTimes :
             field = [EmptyFields EXCEPT !["add-date"] = d, !["add-earth-time"] = e]
     \/ /\ pc = "subtract"
        /\ \E d \in PageDateTexts, e \in PageEarthTimes :
             field = [EmptyFields EXCEPT !["subtract-date"] = d,
                                         !["subtract-earth-time"] = e]
     \/ /\ pc = "compare"
        /\ \E d \in PageDateTexts, o \in PageOtherDates, swap \in BOOLEAN :
             field = [EmptyFields EXCEPT
                        !["compare-date1"] = IF swap THEN o ELSE d,
                        !["compare-date2"] = IF swap THEN d ELSE o]

AddSubmit ==
  /\ pc = "add"
  /\ result' = [result EXCEPT !["add-result"] =
                  addSubmit(field["add-date"], field["add-earth-time"])]
  /\ UNCHANGED <<units, pc, arg, ret, back, field>>

SubtractSubmit ==
  /\ pc = "subtract"
  /\ result' = [result EXCEPT !["subtract-result"] =
                  subtractSubmit(field["subtract-date"], field["subtract-earth-time"])]
  /\ UNCHANGED <<units, pc, arg, ret, back, field>>

CompareSubmit ==
  /\ pc = "compare"
  /\ result' = [result EXCEPT !["compare-result"] =
                  compareSubmit(field["compare-date1"], field["compare-date2"])]
  /\ UNCHANGED <<units, pc, arg, ret, back, field>>

ShowsDate(text, caption) == text # <<>> /\ Head(text) = caption

\* the user opens the subtract tab and enters the date the addition
\* displayed, with the Earth time just added
CarryOver ==
  /\ pc = "add"
  /\ ShowsDate(result["add-result"], "New Cybertronian Date:\n")
  /\ pc' = "subtract"
  /\ field' = [field EXCEPT !["subtract-date"] = Tail(result["add-result"]),
                            !["subtract-earth-time"] = field["add-earth-time"]]
  /\ UNCHANGED <<units, arg, ret, back, result>>

Next == AddSubmit \/ SubtractSubmit \/ CompareSubmit \/ CarryOver

Spec == Init /\ [][Next]_vars

(***************************************************************************)
(* Exact arithmetic for the properties: a non-negative binary64 value and  *)
(* a natural number as integers in units of 2^-64.                         *)
(***************************************************************************)
Fixed(x) == IF DIsZero(x) THEN <<>> ELSE NShl(x.m, x.e + 64)
FixedNat(n) == NShl(NFromInt(n), 64)

\* x < y, x <= y for non-negative binary64 values
ExactLess(x, y) == NCmp(Fixed(x), Fixed(y)) < 0
ExactLeq(x, y) == NCmp(Fixed(x), Fixed(y)) <= 0

\* one klik is 315.576 s = 39447 / 125 s
KlikNumerator == (36525 * 108) \div 100
KlikDenominator == 5 * 5 * 5

\* |x - y| <= one klik, for non-negative binary64 values
WithinOneKlik(x, y) ==
  LET a == Fixed(x)
      b == Fixed(y)
      gap == IF NCmp(a, b) >= 0 THEN NSub(a, b) ELSE NSub(b, a)
  IN  NCmp(NMulSmall(gap, KlikDenominator), FixedNat(KlikNumerator)) <= 0

\* solarCycle * 10^6 + cycle * 1000 + chord * 100 + klik, absent fields 0
FieldOr0(f) == IF f = Null THEN 0 ELSE Val(f)
TotalKliks(d) ==
  FieldOr0(d.solarCycle) * 1000000 + FieldOr0(d.cycle) * 1000
  + FieldOr0(d.chord) * 100 + FieldOr0(d.klik)

Populated(d) ==
  d.klik # Null /\ d.chord # Null /\ d.cycle # Null /\ d.solarCycle # Null

NoNegativeField(d) ==
  /\ FieldOr0(d.klik) >= 0 /\ FieldOr0(d.chord) >= 0
  /\ FieldOr0(d.cycle) >= 0 /\ FieldOr0(d.solarCycle) >= 0

IsError(text) == text # <<>> /\ Head(text) = "Error: "

(***************************************************************************)
(* C1                                                                      *)
(***************************************************************************)
\* C1: for every non-negative integer s, toSeconds(fromSeconds(s)) never
\* exceeds s and is greater than s minus one klik (315.576 s).
C1_RoundTripWithinOneKlik ==
  pc = "seconds-date-seconds" =>
    /\ ~DIsNegative(back)
    /\ NCmp(Fixed(back), FixedNat(arg)) <= 0
    /\ NCmp(NAdd(NMulSmall(Fixed(back), KlikDenominator), FixedNat(KlikNumerator)),
            NMulSmall(FixedNat(arg), KlikDenominator)) > 0

(***************************************************************************)
(* C10                                                                     *)
(***************************************************************************)
InRanges(d) ==
  /\ Populated(d)
  /\ Val(d.klik) \in 0..99
  /\ Val(d.chord) \in 0..9
  /\ Val(d.cycle) \in 0..999
  /\ Val(d.solarCycle) >= 0

\* C10: fromSeconds of a non-negative seconds value has four non-null
\* fields with klik in 0..99, chord in 0..9, cycle in 0..999 and a
\* non-negative solarCycle, and fromSeconds(toSeconds(d)) = d for every date
\* d whose four fields lie in those ranges.
C10_NormalisedAndRoundTrip ==
  /\ pc \in {"seconds-date", "seconds-date-seconds"} => InRanges(ret)
  /\ pc = "date-seconds-date" => (InRanges(back) /\ (InRanges(arg) => back = arg))

(***************************************************************************)
(* C3                                                                      *)
(***************************************************************************)
Blank == <<" ">>
ArcSep == <<" ", "arc", " ">>

\* C3: format returns one of the four arc-separated shapes exactly for the
\* field sets {klik, chord, cycle, solarCycle}, {chord, cycle, solarCycle},
\* {klik, chord} and {cycle}, and "Invalid date" for each of the other 12
\* combinations of null and non-null fields.
C3_FormatShapes ==
  pc = "formatted" =>
    LET k == arg.klik # Null
        ch == arg.chord # Null
        c == arg.cycle # Null
        sc == arg.solarCycle # Null
        K == NumberToString(Val(arg.klik))
        CH == NumberToString(Val(arg.chord))
        C == NumberToString(Val(arg.cycle))
        SC == NumberToString(Val(arg.solarCycle))
    IN  IF k /\ ch /\ c /\ sc THEN ret = K \o ArcSep \o CH \o Blank \o C \o ArcSep \o SC
        ELSE IF ~k /\ ch /\ c /\ sc THEN ret = CH \o Blank \o C \o ArcSep \o SC
        ELSE IF k /\ ch /\ ~c /\ ~sc THEN ret = K \o ArcSep \o CH
        ELSE IF ~k /\ ~ch /\ c /\ ~sc THEN ret = C
        ELSE ret = <<"Invalid date">>

(***************************************************************************)
(* C4, C5                                                                  *)
(***************************************************************************)
IsArc(c) == c \in {"arc", "ARC"}

\* the maximal runs of lexemes of t that satisfy In, in order
RECURSIVE RunsOf(_, _, _)
RunsOf(t, In(_), run) ==
  IF t = <<>> THEN (IF run = <<>> THEN <<>> ELSE <<run>>)
  ELSE IF In(Head(t)) THEN RunsOf(Tail(t), In, Append(run, Head(t)))
  ELSE (IF run = <<>> THEN <<>> ELSE <<run>>) \o RunsOf(Tail(t), In, <<>>)

NotArc(c) == ~IsArc(c)
NotBlank(c) == ~IsSpace(c)
IsWord(c) == ~IsArc(c) /\ ~IsSpace(c)

\* the tokens of a text: what stands between blanks and separators
TokensOf(t) == RunsOf(t, IsWord, <<>>)

IsNumeral(tok) == AllDigits(tok)

\* the number of places where a piece of the text could stand: one more
\* than the number of separators
PieceCount(t) == Cardinality({i \in 1..Len(t) : IsArc(t[i])}) + 1

\* the pieces between separators that hold a token
FilledPieces(t) ==
  LET runs == RunsOf(t, NotArc, <<>>)
  IN  Cardinality({i \in 1..Len(runs) : \E j \in 1..Len(runs[i]) : NotBlank(runs[i][j])})

HasEmptyPiece(t) == FilledPieces(t) < PieceCount(t)

\* C4: parse signals an error and produces no CyberDate whenever a token is
\* not a valid number, whenever a piece of the text is empty (empty or blank
\* text, or a separator with nothing on one side), and whenever the number
\* of tokens is outside 1..4; an empty piece never counts as the number 0.
C4_ParseRejects ==
  pc = "parsed" =>
    LET toks == TokensOf(arg)
    IN  /\ (\E i \in 1..Len(toks) : ~IsNumeral(toks[i])) => ret.kind = "throw"
        /\ HasEmptyPiece(arg) => ret.kind # "date"
        /\ Len(toks) \notin 1..4 => ret.kind # "date"

\* a text of numerals with blanks or one separator between neighbours
WellFormed(t) ==
  /\ t # <<>>
  /\ \A i \in 1..Len(t) : IsDigit(t[i]) \/ IsSpace(t[i]) \/ IsArc(t[i])
  /\ ~HasEmptyPiece(t)
  /\ IsDigit(t[1]) /\ IsDigit(t[Len(t)])

NumeralValues(t) ==
  LET toks == TokensOf(t) IN [i \in 1..Len(toks) |-> DecimalValue(toks[i], 0)]

\* C5: for 1 to 4 numerals with separators anywhere between them, parse
\* assigns them in order by count alone - 4: klik, chord, cycle, solarCycle;
\* 3: chord, cycle, solarCycle; 2: klik, chord; 1: cycle - and leaves every
\* other field null.
C5_ParseArity ==
  (pc = "parsed" /\ WellFormed(arg) /\ Len(NumeralValues(arg)) \in 1..4) =>
    LET v == NumeralValues(arg)
        n == Len(v)
    IN  /\ ret.kind = "date"
        /\ n = 4 => ret.date = MkDate(Some(v[1]), Some(v[2]), Some(v[3]), Some(v[4]))
        /\ n = 3 => ret.date = MkDate(Null, Some(v[1]), Some(v[2]), Some(v[3]))
        /\ n = 2 => ret.date = MkDate(Some(v[1]), Some(v[2]), Null, Null)
        /\ n = 1 => ret.date = MkDate(Null, Null, Some(v[1]), Null)
        /\ \E f \in DOMAIN ret.date : ret.date[f] # Null

\* three numerals around a separator in capitals have been parsed
C5_Witness ==
  /\ pc = "parsed"
  /\ WellFormed(arg)
  /\ Len(NumeralValues(arg)) = 3
  /\ \E i \in 1..Len(arg) : arg[i] = "ARC"
  /\ ret.kind = "date"
  /\ ret.date = MkDate(Null, Some(12), Some(5), Some(0))

(***************************************************************************)
(* C8                                                                      *)
(***************************************************************************)
IsUnitWord(c) == c \in UnitWords \/ c \in {"YEAR", "WEEK", "DAY", "HOUR", "MINUTE", "SECOND"}

\* seconds in a unit, with the year of 365.25 days
SecondsIn(c) ==
  CASE c \in {"year", "YEAR"} -> NFromInt(31557600)
    [] c \in {"week", "WEEK"} -> NFromInt(604800)
    [] c \in {"day", "DAY"} -> NFromInt(86400)
    [] c \in {"hour", "HOUR"} -> NFromInt(3600)
    [] c \in {"minute", "MINUTE"} -> NFromInt(60)
    [] c \in {"second", "SECOND"} -> NFromInt(1)

\* an integer at i..j, blanks, and a unit word at k
IsAmount(t, i, j, k) ==
  /\ 1 <= i /\ i <= j /\ j < k /\ k <= Len(t)
  /\ \A x \in i..j : IsDigit(t[x])
  /\ i = 1 \/ ~IsDigit(t[i - 1])
  /\ \A x \in (j + 1)..(k - 1) : IsSpace(t[x])
  /\ IsUnitWord(t[k])

Amounts(t) ==
  {a \in (1..Len(t)) \X (1..Len(t)) \X (1..Len(t)) : IsAmount(t, a[1], a[2], a[3])}

RECURSIVE SumOfAmounts(_, _)
SumOfAmounts(t, as) ==
  IF as = {} THEN NFromInt(0)
  ELSE LET a == CHOOSE x \in as : TRUE
       IN  NAdd(NMul(NFromInt(DecimalValue(SubSeq(t, a[1], a[2]), 0)), SecondsIn(t[a[3]])),
                SumOfAmounts(t, as \ {a}))

\* C8: parseDuration returns the sum, over every match of an integer followed
\* by optional blanks and a unit word in singular or plural and any letter
\* case, of the value times the unit's seconds (second 1, minute 60, hour
\* 3600, day 86400, week 604800, year 31557600); other text is ignored, the
\* result is 0 when nothing matches, and it is never negative.
C8_DurationSum ==
  pc = "summed" =>
    /\ ret = DRound(FALSE, SumOfAmounts(arg, Amounts(arg)), 0)
    /\ ~DIsNegative(ret)
    /\ Amounts(arg) = {} => DIsZero(ret)

\* two amounts of different units, one in capitals, have been summed
C8_Witness ==
  /\ pc = "summed"
  /\ Cardinality(Amounts(arg)) = 2
  /\ \E a \in Amounts(arg) : arg[a[3]] = "year"
  /\ \E a \in Amounts(arg) : arg[a[3]] = "DAY"
  /\ ~DIsZero(ret)

(***************************************************************************)
(* C6, C7                                                                  *)
(***************************************************************************)
AddCaption == "New Cybertronian Date:\n"
SubtractCaption == "Cybertronian Date after subtracting time:\n"
BeforeStart == ErrorText("Resulting date is before the start of Cybertronian time.")

Submitted(form) == pc = form /\ result[form \o "-result"] # <<>>

\* the date a form's date field holds, when it holds one
DateIn(id) == parseCybertronianDate(field[id])
HoldsDate(id) == DateIn(id).kind = "date"

\* the date a result element shows
Shown(id) == parseCybertronianDate(Tail(result[id])).date

\* the duration a field holds, exactly: the sum of C8
DurationIn(id) == SumOfAmounts(field[id], Amounts(field[id]))

\* C6: subtract fails, producing no date, exactly when the duration is 0 or
\* less or toSeconds(date) is smaller than the duration; in every other
\* case, equality included, it returns fromSeconds(toSeconds(date) -
\* duration), and no returned date has a negative field.
C6_SubtractExactlyWhen ==
  (Submitted("subtract") /\ HoldsDate("subtract-date")) =>
    LET start == cyberDateToEarthSeconds(DateIn("subtract-date").date)
        dur == DRound(FALSE, DurationIn("subtract-earth-time"), 0)
        fails == DIsZero(dur) \/ ExactLess(start, dur)
        out == result["subtract-result"]
    IN  /\ IsError(out) <=> fails
        /\ ~fails =>
             /\ out = <<SubtractCaption>>
                        \o formatCyberDate(earthSecondsToCyberDate(DSub(start, dur)))
             /\ NoNegativeField(Shown("subtract-result"))

\* C7: add fails, producing no date, whenever the duration is 0 or less, in
\* particular when the text holds no amount; otherwise it returns
\* fromSeconds(toSeconds(date) + duration), a date with all four fields
\* populated whatever fields the input date had.
C7_AddChecksDuration ==
  (Submitted("add") /\ HoldsDate("add-date")) =>
    LET start == cyberDateToEarthSeconds(DateIn("add-date").date)
        dur == DRound(FALSE, DurationIn("add-earth-time"), 0)
        out == result["add-result"]
    IN  IF DIsZero(dur)
          THEN out = ErrorText("Invalid or zero Earth time to add.")
          ELSE /\ ShowsDate(out, AddCaption)
               /\ parseCybertronianDate(Tail(out)).kind = "date"
               /\ Shown("add-result") = earthSecondsToCyberDate(DAdd(start, dur))
               /\ Populated(Shown("add-result"))

\* a date of klik and chord alone has had a year added and shows four fields
C7_Witness ==
  /\ Submitted("add") /\ HoldsDate("add-date")
  /\ DateIn("add-date").date.cycle = Null /\ DateIn("add-date").date.solarCycle = Null
  /\ field["add-earth-time"] = <<"1", " ", "year">>
  /\ ShowsDate(result["add-result"], AddCaption)
  /\ Populated(Shown("add-result"))
  /\ TotalKliks(Shown("add-result")) > TotalKliks(DateIn("add-date").date)

(***************************************************************************)
(* C9                                                                      *)
(***************************************************************************)
ElapsedText(d, seconds) ==
  <<"Elapsed Cybertronian Time:\n">>
  \o <<"Klik: ">> \o NumberToString(Val(d.klik))
  \o <<", Chord: ">> \o NumberToString(Val(d.chord))
  \o <<", Cycle: ">> \o NumberToString(Val(d.cycle))
  \o <<", Solar Cycle: ">> \o NumberToString(Val(d.solarCycle))
  \o <<"\n\nElapsed Earth Time:\n">> \o humanElapsed(seconds)

ZeroDate == MkDate(Some(0), Some(0), Some(0), Some(0))

\* C9: for valid dates a and b, difference(a, b) has seconds = |toSeconds(a)
\* - toSeconds(b)| and cyberDate = fromSeconds(seconds); it is symmetric in
\* its arguments, and difference(d, d) is 0 seconds and the all-zero date
\* whichever fields of d are null.
C9_DifferenceSymmetric ==
  (Submitted("compare") /\ HoldsDate("compare-date1") /\ HoldsDate("compare-date2")) =>
    LET a == DateIn("compare-date1").date
        b == DateIn("compare-date2").date
        sa == cyberDateToEarthSeconds(a)
        sb == cyberDateToEarthSeconds(b)
        gap == IF ExactLeq(sa, sb) THEN DSub(sb, sa) ELSE DSub(sa, sb)
        out == result["compare-result"]
    IN  /\ ~DIsNegative(gap)
        /\ out = ElapsedText(earthSecondsToCyberDate(gap), gap)
        /\ out = compareSubmit(field["compare-date2"], field["compare-date1"])
        /\ a = b => /\ DIsZero(gap)
                    /\ out = ElapsedText(ZeroDate, DZero)

\* a date of klik and chord alone has been compared with itself
C9_Witness ==
  /\ Submitted("compare")
  /\ field["compare-date1"] = <<"1", " ", "arc", " ", "0">>
  /\ field["compare-date2"] = field["compare-date1"]
  /\ result["compare-result"] = ElapsedText(ZeroDate, DZero)

(***************************************************************************)
(* C2                                                                      *)
(***************************************************************************)
\* the date the addition displayed has been entered in the subtract form
\* with the same Earth time, and the subtraction has run
AddedThenSubtracted ==
  /\ pc = "subtract"
  /\ ShowsDate(result["add-result"], AddCaption)
  /\ result["subtract-result"] # <<>>

====
